---- MODULE Spec2Model ----
(***************************************************************************)
(* Model of custom_components/entsoe/sensor.py: the metric catalog         *)
(* (sensor_descriptions) and the EntsoeSensor entity with its hourly       *)
(* self-rescheduling async_update.                                         *)
(*                                                                         *)
(* Numbers are fixed-point with one decimal (an integer n stands for       *)
(* n/10), so that round(x, 1) has an exact image.  Times are records       *)
(* [h, m, s, us] (hour count, minute, second, microsecond).                *)
(***************************************************************************)
EXTENDS Integers, Sequences, FiniteSets, TLC

VARIABLES
    active,                  \* entities the host registered in this run
    data,                    \* coordinator.data
    now,                     \* utcnow()
    native_value,            \* _attr_native_value, per entity
    extra_state_attributes,  \* _attr_extra_state_attributes, per entity
    last_update_success,     \* last_update_success, per entity
    unsub_update,            \* _unsub_update, per entity (0 = None, else a handle)
    pending,                 \* armed wake-ups of the event helper, per entity
    queued,                  \* update tasks created by fired wake-ups, per entity
    started,                 \* async_update has completed at least once, per entity
    lastOp,                  \* history: what the last step did
    lastOutcome,             \* history: outcome of the last non-skipped update, per entity
    firedThisHour,           \* history: a wake-up fired in the current clock hour, per entity
    setup                    \* async_setup_entry: its config entry and the entities built

vars == <<active, data, now, native_value, extra_state_attributes,
          last_update_success, unsub_update, pending, queued, started,
          lastOp, lastOutcome, firedThisHour, setup>>

-----------------------------------------------------------------------------
\* Bounds of the model

MaxHour == 2
MaxTimerId == 3
MaxQueued == 1

\* sampled (minute, second, microsecond) positions within an hour: the hour sharp,
\* a fraction of a second past it, and the last microsecond of the hour
WithinHour == { <<0, 0, 0>>, <<0, 0, 250000>>, <<59, 59, 999999>> }

-----------------------------------------------------------------------------
\* Values

None == [t |-> "None", v |-> 0]
Num(n) == [t |-> "num", v |-> n]
Timestamp(n) == [t |-> "Timestamp", v |-> n]
PyDatetime(n) == [t |-> "datetime", v |-> n]

\* pd.Timestamp.to_pydatetime(): the same instant as a datetime.datetime
to_pydatetime(x) == PyDatetime(x.v)

-----------------------------------------------------------------------------
\* The metric catalog

MetricKeys ==
    << "current_price", "next_hour_price", "min_price", "max_price", "avg_price",
       "percentage_of_max", "highest_price_time_today", "lowest_price_time_today" >>

Keys == { MetricKeys[i] : i \in 1..Len(MetricKeys) }

\* the result of a call: either a value or a raised exception
Ok(x) == [raised |-> FALSE, value |-> x]
Raise == [raised |-> TRUE, value |-> None]

\* data[f]: KeyError when the key is absent
GetItem(d, f) == IF f \in DOMAIN d THEN Ok(d[f]) ELSE Raise

\* round-half-even of n/d, d # 0 (Python's round(x, 1) on the fixed-point image)
RoundHalfEven(n, d) ==
    LET nn == IF d < 0 THEN -n ELSE n
        dd == IF d < 0 THEN -d ELSE d
        q == nn \div dd
        r == nn - q * dd
    IN  IF 2 * r < dd THEN q
        ELSE IF 2 * r > dd THEN q + 1
        ELSE IF q % 2 = 0 THEN q ELSE q + 1

\* variant of PercentageOfMax: a zero or null operand yields 0 instead of raising
PercentageOfMax_Guarded(d) ==
    LET c == GetItem(d, "current_price")
        m == GetItem(d, "max_price")
    IN  IF c.raised \/ m.raised THEN Raise
        ELSE IF c.value.t # "num" \/ m.value.t # "num" THEN Ok(Num(0))
        ELSE IF m.value.v = 0 THEN Ok(Num(0))
        ELSE Ok(Num(RoundHalfEven(c.value.v * 1000, m.value.v)))

\* round(data["current_price"] / data["max_price"] * 100, 1)
PercentageOfMax(d) ==
    LET c == GetItem(d, "current_price")
        m == GetItem(d, "max_price")
    IN  IF c.raised \/ m.raised THEN Raise                     \* KeyError
        ELSE IF c.value.t # "num" \/ m.value.t # "num" THEN Raise  \* TypeError
        ELSE IF m.value.v = 0 THEN Raise                       \* ZeroDivisionError
        ELSE Ok(Num(RoundHalfEven(c.value.v * 1000, m.value.v)))

\* description.value_fn(data) of the metric with the given key
value_fn(key, d) ==
    CASE key = "current_price" -> GetItem(d, "current_price")
      [] key = "next_hour_price" -> GetItem(d, "next_hour_price")
      [] key = "min_price" -> GetItem(d, "min_price")
      [] key = "max_price" -> GetItem(d, "max_price")
      [] key = "avg_price" -> GetItem(d, "avg_price")
      [] key = "percentage_of_max" -> PercentageOfMax(d)
      [] key = "highest_price_time_today" -> GetItem(d, "time_max")
      [] key = "lowest_price_time_today" -> GetItem(d, "time_min")

-----------------------------------------------------------------------------
\* Strings and the setup of a config entry

\* Python's None where a string is expected, and a string
PyNone == [t |-> "None", s |-> ""]
PyStr(x) == [t |-> "str", s |-> x]

\* sub in s, for strings
Contains(s, sub) ==
    \E i \in 1..(Len(s) + 1) :
        /\ i + Len(sub) - 1 <= Len(s)
        /\ SubSeq(s, i, i + Len(sub) - 1) = sub

\* DOMAIN (the import from .const shadows the one of the sensor component),
\* UnitOfEnergy.KILO_WATT_HOUR and PERCENTAGE
DOMAIN_ == "entsoe"
KILO_WATT_HOUR == "kWh"
PERCENTAGE == "%"

\* one EntsoeEntityDescription; value_fn is value_fn(key, _) above
Description(key, name, unit) == [key |-> key, name |-> name, unit |-> unit]

\* the tuple sensor_descriptions returns, with priceUnit the unit of its price metrics
Catalog(priceUnit) ==
    << Description("current_price", "Current electricity market price", PyStr(priceUnit)),
       Description("next_hour_price", "Next hour electricity market price", PyStr(priceUnit)),
       Description("min_price", "Lowest energy price today", PyStr(priceUnit)),
       Description("max_price", "Highest energy price today", PyStr(priceUnit)),
       Description("avg_price", "Average electricity price today", PyStr(priceUnit)),
       Description("percentage_of_max",
                   "Current percentage of highest electricity price today",
                   PyStr(PERCENTAGE)),
       Description("highest_price_time_today", "Time of highest price today", PyNone),
       Description("lowest_price_time_today", "Time of lowest price today", PyNone) >>

\* variant of sensor_descriptions: the unit of the price metrics is fixed
sensor_descriptions_FixedUnit(currency) == Catalog("EUR/kWh")

\* sensor_descriptions(currency)
sensor_descriptions(currency) == Catalog(currency \o "/" \o KILO_WATT_HOUR)

\* variant of EntsoeSensor: the configured name is left out of the ids
EntsoeSensor_NameLeftOut(coordinator, description, name) ==
    [coordinator |-> coordinator,
     description |-> description,
     entity_id |-> DOMAIN_ \o "." \o description.name,
     unique_id |-> "entsoe." \o description.key,
     attr_name |-> description.name]

\* EntsoeSensor.__init__: the identification of a new entity
EntsoeSensor(coordinator, description, name) ==
    IF name \notin {PyNone, PyStr("")}
    THEN [coordinator |-> coordinator,
          description |-> description,
          entity_id |-> DOMAIN_ \o "." \o name.s \o "_" \o description.name,
          unique_id |-> "entsoe." \o name.s \o "_" \o description.key,
          attr_name |-> description.name \o " (" \o name.s \o ")"]
    ELSE [coordinator |-> coordinator,
          description |-> description,
          entity_id |-> DOMAIN_ \o "." \o description.name,
          unique_id |-> "entsoe." \o description.key,
          attr_name |-> description.name]

\* currency codes of the config entry (CONF_CURRENCY)
Currencies == { "EUR", "USD", "kr" }

\* entity names of the config entry (CONF_ENTITY_NAME)
Names == { PyNone, PyStr(""), PyStr("home"), PyStr("home_max"), PyStr("next_hour"),
           PyStr("Time") }

\* coordinators the host may hold for a config entry
Coordinators == { "coordinator_1", "coordinator_2" }

\* the setup of a config entry that has run to its end (the entity model starts here)
SetupDone ==
    [name |-> PyNone, currency |-> "EUR", coordinator |-> "coordinator_1",
     entities |-> [i \in 1..Len(MetricKeys) |->
                     EntsoeSensor("coordinator_1", sensor_descriptions("EUR")[i], PyNone)],
     added |-> TRUE]

-----------------------------------------------------------------------------
\* Snapshots the coordinator may hold (what processed_data() returns for them)

NoData == [none |-> TRUE]

SnapGood ==
    [current_price |-> Num(50), next_hour_price |-> Num(70), min_price |-> Num(20),
     max_price |-> Num(100), avg_price |-> Num(60),
     time_min |-> Timestamp(3), time_max |-> Timestamp(17),
     prices_today |-> <<20, 100>>, prices_tomorrow |-> <<30>>, prices |-> <<20, 100, 30>>]

\* null current, next-hour and average prices
SnapNulls ==
    [current_price |-> None, next_hour_price |-> None, min_price |-> Num(-25),
     max_price |-> Num(80), avg_price |-> None,
     time_min |-> Timestamp(5), time_max |-> Timestamp(19),
     prices_today |-> <<-25, 80>>, prices_tomorrow |-> <<>>, prices |-> <<-25, 80>>]

\* all prices of the day at or below zero
SnapZeroMax == [SnapGood EXCEPT !.max_price = Num(0), !.min_price = Num(-30),
                                !.current_price = Num(-25)]

\* the scalar fields without the price curves
SnapNoCurves ==
    [current_price |-> Num(40), next_hour_price |-> Num(45), min_price |-> Num(10),
     max_price |-> Num(90), avg_price |-> Num(55),
     time_min |-> Timestamp(4), time_max |-> Timestamp(18)]

\* a null maximum, and the other scalar fields (but the current price) absent
SnapPartial ==
    [current_price |-> Num(50), max_price |-> None,
     prices_today |-> <<50>>, prices_tomorrow |-> <<>>, prices |-> <<50>>]

Snapshots == { SnapGood, SnapNulls, SnapZeroMax, SnapNoCurves, SnapPartial }

-----------------------------------------------------------------------------
\* Time

Instants ==
    { [h |-> h, m |-> w[1], s |-> w[2], us |-> w[3]] : h \in 0..MaxHour, w \in WithinHour }

\* a < b on datetimes
Earlier(a, b) ==
    \/ a.h < b.h
    \/ a.h = b.h /\ a.m < b.m
    \/ a.h = b.h /\ a.m = b.m /\ a.s < b.s
    \/ a.h = b.h /\ a.m = b.m /\ a.s = b.s /\ a.us < b.us

\* variant of NextUpdateTime: the hour is not added
NextUpdateTime_NoHour(t) == [h |-> t.h, m |-> 0, s |-> 0, us |-> t.us]

\* variant of NextUpdateTime: two hours are added
NextUpdateTime_TwoHours(t) == [h |-> t.h + 2, m |-> 0, s |-> 0, us |-> t.us]

\* utcnow().replace(minute=0, second=0) + timedelta(hours=1)
NextUpdateTime(t) == [h |-> t.h + 1, m |-> 0, s |-> 0, us |-> t.us]

\* armed wake-ups whose point in time has been reached
TimersDue(e) == { t \in pending[e] : ~Earlier(now, t.at) }

-----------------------------------------------------------------------------
\* EntsoeSensor

NoAttrs == [none |-> TRUE]

\* history record of a step that is not an update
NoOp == [e |-> "", kind |-> "none", cause |-> "none", trigger |-> "none",
         succ |-> FALSE, prev |-> "none"]

\* EntsoeSensor.__init__ of every entity, before the host's first update
Init ==
    /\ active \in { {k} : k \in Keys }
    /\ data = NoData
    /\ now \in { t \in Instants : t.h = 0 }
    /\ native_value = [e \in active |-> None]
    /\ extra_state_attributes = [e \in active |-> NoAttrs]
    /\ last_update_success = [e \in active |-> TRUE]
    /\ unsub_update = [e \in active |-> 0]
    /\ pending = [e \in active |-> {}]
    /\ queued = [e \in active |-> 0]
    /\ started = [e \in active |-> FALSE]
    /\ lastOp = NoOp
    /\ lastOutcome = [e \in active |-> "none"]
    /\ firedThisHour = [e \in active |-> FALSE]
    /\ setup = SetupDone

\* variant of Failed: the except branch forgets to clear the success flag
Failed_KeepsSuccess(e, cause, value) ==
    [kind |-> "fail", cause |-> cause, value |-> value,
     attrs |-> extra_state_attributes[e], success |-> last_update_success[e]]

\* the except branch: last_update_success = False; value is what
\* _attr_native_value holds when the exception is raised
Failed(e, cause, value) ==
    [kind |-> "fail", cause |-> cause, value |-> value,
     attrs |-> extra_state_attributes[e], success |-> FALSE]

\* the three price-curve attributes captured for avg_price
PriceCurves(d) ==
    [prices_today |-> d.prices_today, prices_tomorrow |-> d.prices_tomorrow,
     prices |-> d.prices]

\* variant of Publish: the try block never sets the success flag again
Publish_NoSuccessFlag(e, value) ==
    [kind |-> "ok", cause |-> "none", value |-> value,
     attrs |-> extra_state_attributes[e], success |-> last_update_success[e]]

\* variant of Publish: the price curves are captured for every metric
Publish_CurvesForAll(e, value) ==
    IF value # None
    THEN IF {"prices_today", "prices_tomorrow", "prices"} \subseteq DOMAIN data
         THEN [kind |-> "ok", cause |-> "none", value |-> value,
               attrs |-> PriceCurves(data), success |-> TRUE]
         ELSE Failed(e, "attributes", value)
    ELSE [kind |-> "ok", cause |-> "none", value |-> value,
          attrs |-> extra_state_attributes[e], success |-> TRUE]

\* variant of Publish: a null result does not replace the stored value
Publish_KeepsOnNull(e, value) ==
    IF value = None
    THEN [kind |-> "ok", cause |-> "none", value |-> native_value[e],
          attrs |-> extra_state_attributes[e], success |-> TRUE]
    ELSE IF e = "avg_price"
    THEN IF {"prices_today", "prices_tomorrow", "prices"} \subseteq DOMAIN data
         THEN [kind |-> "ok", cause |-> "none", value |-> value,
               attrs |-> PriceCurves(data), success |-> TRUE]
         ELSE Failed(e, "attributes", value)
    ELSE [kind |-> "ok", cause |-> "none", value |-> value,
          attrs |-> extra_state_attributes[e], success |-> TRUE]

\* the end of the try block, after value has been computed and converted
Publish(e, value) ==
    IF e = "avg_price" /\ value # None
    THEN IF {"prices_today", "prices_tomorrow", "prices"} \subseteq DOMAIN data
         THEN [kind |-> "ok", cause |-> "none", value |-> value,
               attrs |-> PriceCurves(data), success |-> TRUE]
         ELSE Failed(e, "attributes", value)             \* KeyError after the store
    ELSE [kind |-> "ok", cause |-> "none", value |-> value,
          attrs |-> extra_state_attributes[e], success |-> TRUE]

\* variant of Skipped: value (None) is stored even though no snapshot was read
Skipped_StoresNone(e) ==
    [kind |-> "skip", cause |-> "none", value |-> None,
     attrs |-> extra_state_attributes[e], success |-> last_update_success[e]]

\* coordinator.data is None: the try block is not entered
Skipped(e) ==
    [kind |-> "skip", cause |-> "none", value |-> native_value[e],
     attrs |-> extra_state_attributes[e], success |-> last_update_success[e]]

\* the data part of async_update: the new value, attributes and success flag.
\* procRaises: coordinator.processed_data() raises; convRaises: to_pydatetime() raises
Attempt(e, procRaises, convRaises) ==
    IF data = NoData THEN Skipped(e)
    ELSE IF procRaises THEN Failed(e, "processed_data", native_value[e])
    ELSE LET r == value_fn(e, data)
         IN  IF r.raised THEN Failed(e, "value_fn", native_value[e])
             ELSE IF r.value.t = "Timestamp"
                  THEN IF convRaises THEN Failed(e, "to_pydatetime", native_value[e])
                       ELSE Publish(e, to_pydatetime(r.value))
                  ELSE Publish(e, r.value)

\* variant of CancelScheduled: the handle is dropped without being called
CancelScheduled_NoCancel(e) == pending[e]

\* if self._unsub_update: self._unsub_update(); self._unsub_update = None
CancelScheduled(e) ==
    IF unsub_update[e] # 0
    THEN { t \in pending[e] : t.id # unsub_update[e] }
    ELSE pending[e]

\* handles that are neither armed nor the one just released
FreeHandles(e) ==
    { i \in 1..MaxTimerId :
        /\ i # unsub_update[e]
        /\ \A t \in CancelScheduled(e) : t.id # i }

\* event.async_track_point_in_utc_time(hass, job, point): arms one wake-up
\* and returns its handle
async_track_point_in_utc_time(e, point) ==
    LET id == CHOOSE i \in FreeHandles(e) : \A j \in FreeHandles(e) : i <= j
    IN  [id |-> id, at |-> point]

\* variant of Reschedule: the wake-up is re-armed only when a snapshot was present
Reschedule_OnlyWithData(e) ==
    IF data = NoData
    THEN [pending |-> pending[e], unsub |-> unsub_update[e]]
    ELSE LET timer == async_track_point_in_utc_time(e, NextUpdateTime(now))
         IN  [pending |-> CancelScheduled(e) \cup {timer}, unsub |-> timer.id]

\* variant of Reschedule: the handle of the new wake-up is not kept
Reschedule_HandleLost(e) ==
    LET timer == async_track_point_in_utc_time(e, NextUpdateTime(now))
    IN  [pending |-> CancelScheduled(e) \cup {timer}, unsub |-> 0]

\* the scheduling part of async_update
Reschedule(e) ==
    LET timer == async_track_point_in_utc_time(e, NextUpdateTime(now))
    IN  [pending |-> CancelScheduled(e) \cup {timer}, unsub |-> timer.id]

\* variant of async_update: the value is stored on the class, not on the instance
async_update_ClassValue(e, procRaises, convRaises, trigger) ==
    LET a == Attempt(e, procRaises, convRaises)
        r == Reschedule(e)
    IN  /\ FreeHandles(e) # {}
        /\ native_value' = [o \in active |-> a.value]
        /\ extra_state_attributes' = [extra_state_attributes EXCEPT ![e] = a.attrs]
        /\ last_update_success' = [last_update_success EXCEPT ![e] = a.success]
        /\ pending' = [pending EXCEPT ![e] = r.pending]
        /\ unsub_update' = [unsub_update EXCEPT ![e] = r.unsub]
        /\ started' = [started EXCEPT ![e] = TRUE]
        /\ lastOp' = [e |-> e, kind |-> a.kind, cause |-> a.cause, trigger |-> trigger,
                      succ |-> (lastOp.kind # "none" /\ lastOp.e = e),
                      prev |-> lastOutcome[e]]
        /\ lastOutcome' = [lastOutcome EXCEPT
                             ![e] = IF a.kind = "skip" THEN @ ELSE a.kind]

\* EntsoeSensor.async_update, run to completion (it never awaits)
async_update(e, procRaises, convRaises, trigger) ==
    LET a == Attempt(e, procRaises, convRaises)
        r == Reschedule(e)
    IN  /\ FreeHandles(e) # {}
        /\ native_value' = [native_value EXCEPT ![e] = a.value]
        /\ extra_state_attributes' = [extra_state_attributes EXCEPT ![e] = a.attrs]
        /\ last_update_success' = [last_update_success EXCEPT ![e] = a.success]
        /\ pending' = [pending EXCEPT ![e] = r.pending]
        /\ unsub_update' = [unsub_update EXCEPT ![e] = r.unsub]
        /\ started' = [started EXCEPT ![e] = TRUE]
        /\ lastOp' = [e |-> e, kind |-> a.kind, cause |-> a.cause, trigger |-> trigger,
                      succ |-> (lastOp.kind # "none" /\ lastOp.e = e),
                      prev |-> lastOutcome[e]]
        /\ lastOutcome' = [lastOutcome EXCEPT
                             ![e] = IF a.kind = "skip" THEN @ ELSE a.kind]

\* EntsoeSensor.available
available(e) == last_update_success[e]

-----------------------------------------------------------------------------
\* Steps

\* the host calls async_update: the first update after async_add_entities(entities,
\* True), or a later forced refresh
HostUpdate(e) ==
    /\ e \in active
    /\ \E procRaises \in BOOLEAN, convRaises \in BOOLEAN :
          async_update(e, procRaises, convRaises, "host")
    /\ UNCHANGED <<active, data, now, queued, firedThisHour, setup>>

\* a wake-up armed by async_track_point_in_utc_time is due: it is disarmed and its
\* job (async_schedule_update_ha_state) creates the update task
Fire(e) ==
    /\ e \in active
    /\ queued[e] < MaxQueued
    /\ \E t \in TimersDue(e) :
          pending' = [pending EXCEPT ![e] = @ \ {t}]
    /\ queued' = [queued EXCEPT ![e] = @ + 1]
    /\ firedThisHour' = [firedThisHour EXCEPT ![e] = TRUE]
    /\ lastOp' = NoOp
    /\ UNCHANGED <<active, data, now, native_value, extra_state_attributes,
                   last_update_success, unsub_update, started, lastOutcome, setup>>

\* the update task created by a fired wake-up runs async_update
TimerUpdate(e) ==
    /\ e \in active
    /\ queued[e] > 0
    /\ queued' = [queued EXCEPT ![e] = @ - 1]
    /\ \E procRaises \in BOOLEAN, convRaises \in BOOLEAN :
          async_update(e, procRaises, convRaises, "timer")
    /\ UNCHANGED <<active, data, now, firedThisHour, setup>>

\* the coordinator replaces its data (never done by this module)
CoordinatorRefresh ==
    /\ data' \in (Snapshots \cup {NoData}) \ {data}
    /\ lastOp' = NoOp
    /\ UNCHANGED <<active, now, native_value, extra_state_attributes,
                   last_update_success, unsub_update, pending, queued, started,
                   lastOutcome, firedThisHour, setup>>

\* the clock advances to the next sampled instant
Tick ==
    /\ \E t \in Instants :
          /\ Earlier(now, t)
          /\ \A u \in Instants : Earlier(now, u) => ~Earlier(u, t)
          /\ now' = t
          /\ firedThisHour' = [e \in active |-> firedThisHour[e] /\ t.h = now.h]
    /\ lastOp' = NoOp
    /\ UNCHANGED <<active, data, native_value, extra_state_attributes,
                   last_update_success, unsub_update, pending, queued, started,
                   lastOutcome, setup>>

Next ==
    \/ \E e \in active : HostUpdate(e)
    \/ \E e \in active : Fire(e)
    \/ \E e \in active : TimerUpdate(e)
    \/ CoordinatorRefresh
    \/ Tick

Spec == Init /\ [][Next]_vars

\* two metrics that between them take every path of async_update: a price with its
\* curves, and a timestamp
LoopKeys == { "avg_price", "highest_price_time_today" }

InitLoop == Init /\ active \subseteq LoopKeys

\* two entities created from one coordinator, at the end of the last but one hour
\* of the clock
InitPair ==
    /\ active = { "avg_price", "percentage_of_max" }
    /\ data = NoData
    /\ now = [h |-> MaxHour - 1, m |-> 59, s |-> 59, us |-> 999999]
    /\ native_value = [e \in active |-> None]
    /\ extra_state_attributes = [e \in active |-> NoAttrs]
    /\ last_update_success = [e \in active |-> TRUE]
    /\ unsub_update = [e \in active |-> 0]
    /\ pending = [e \in active |-> {}]
    /\ queued = [e \in active |-> 0]
    /\ started = [e \in active |-> FALSE]
    /\ lastOp = NoOp
    /\ lastOutcome = [e \in active |-> "none"]
    /\ firedThisHour = [e \in active |-> FALSE]
    /\ setup = SetupDone

\* the snapshots the coordinator of the pair goes through: one on which both
\* succeed, one on which only avg_price fails, one on which only percentage_of_max fails
PairSnapshots == { NoData, SnapGood, SnapNoCurves, SnapZeroMax }

PairSpec == InitPair /\ [][Next /\ data' \in PairSnapshots]_vars

\* the event loop: the clock advances, a due wake-up fires, a created task runs
FairSpec ==
    /\ InitLoop
    /\ [][Next]_vars
    /\ WF_vars(Tick)
    /\ WF_vars(\E e \in active : Fire(e))
    /\ WF_vars(\E e \in active : TimerUpdate(e))

\* async_setup_entry is entered: nothing built yet; no entity exists
InitSetup ==
    /\ setup \in [name : Names, currency : Currencies, coordinator : Coordinators,
                  entities : {<<>>}, added : {FALSE}]
    /\ active = {}
    /\ data = NoData
    /\ now = [h |-> 0, m |-> 0, s |-> 0, us |-> 0]
    /\ native_value = <<>>
    /\ extra_state_attributes = <<>>
    /\ last_update_success = <<>>
    /\ unsub_update = <<>>
    /\ pending = <<>>
    /\ queued = <<>>
    /\ started = <<>>
    /\ lastOp = NoOp
    /\ lastOutcome = <<>>
    /\ firedThisHour = <<>>

sensorVars == <<active, data, now, native_value, extra_state_attributes,
                last_update_success, unsub_update, pending, queued, started,
                lastOp, lastOutcome, firedThisHour>>

\* variant of AppendEntity: every entity is built from the first description
AppendEntity_FirstDescription ==
    /\ ~setup.added
    /\ Len(setup.entities) < Len(sensor_descriptions(setup.currency))
    /\ LET description == sensor_descriptions(setup.currency)[1]
       IN  setup' = [setup EXCEPT !.entities =
                        Append(@, EntsoeSensor(setup.coordinator, description, setup.name))]
    /\ UNCHANGED sensorVars

\* one turn of the loop of async_setup_entry: the next description of the catalog
\* becomes an entity
AppendEntity ==
    /\ ~setup.added
    /\ Len(setup.entities) < Len(sensor_descriptions(setup.currency))
    /\ LET description == sensor_descriptions(setup.currency)[Len(setup.entities) + 1]
       IN  setup' = [setup EXCEPT !.entities =
                        Append(@, EntsoeSensor(setup.coordinator, description, setup.name))]
    /\ UNCHANGED sensorVars

\* async_add_entities(entities, True), after the loop
AddEntities ==
    /\ ~setup.added
    /\ Len(setup.entities) = Len(sensor_descriptions(setup.currency))
    /\ setup' = [setup EXCEPT !.added = TRUE]
    /\ UNCHANGED sensorVars

NextSetup == AppendEntity \/ AddEntities

SetupSpec == InitSetup /\ [][NextSetup]_vars

-----------------------------------------------------------------------------
\* Properties

\* the entity whose async_update the last step ran
Updated == lastOp.e

\* the keys of a structurally complete snapshot
SnapshotKeys ==
    { "current_price", "next_hour_price", "min_price", "max_price", "avg_price",
      "time_min", "time_max", "prices_today", "prices_tomorrow", "prices" }

\* C1: every entity has at most one armed wake-up, in every reachable state
C1_AtMostOnePending ==
    \A e \in active : Cardinality(pending[e]) <= 1

\* C1 witness: an update that directly followed another update of the same entity,
\* fired by its wake-up, has left exactly one wake-up armed
C1_Witness ==
    /\ lastOp.kind # "none"
    /\ lastOp.succ
    /\ lastOp.trigger = "timer"
    /\ Cardinality(pending[Updated]) = 1

\* C2 (as claimed): an update that raised leaves availability false and both the
\* value and the extra attributes as they were before it
C2_FailureKeepsValue ==
    [][ lastOp'.kind = "fail" =>
          LET e == lastOp'.e
          IN  /\ ~last_update_success'[e]
              /\ native_value'[e] = native_value[e]
              /\ extra_state_attributes'[e] = extra_state_attributes[e] ]_vars

\* C3: an update that processed a snapshot (succeeding or failing) leaves exactly one
\* armed wake-up, the one its handle refers to; none of the wake-ups armed before
\* the update is still armed
C3_ExactlyOneAfterUpdate ==
    [][ lastOp'.kind \in {"ok", "fail"} =>
          LET e == lastOp'.e
          IN  /\ \E t \in pending'[e] :
                    /\ pending'[e] = {t}
                    /\ t.id = unsub_update'[e]
                    /\ t.id # unsub_update[e]
              /\ \A u \in pending[e] : \A t \in pending'[e] : u.id # t.id ]_vars

\* C3 witness: a failing update ran while a wake-up was still armed, and one is armed
C3_Witness ==
    /\ lastOp.kind = "fail"
    /\ lastOp.succ
    /\ Cardinality(pending[Updated]) = 1

\* C4 (as claimed): every armed wake-up is due at a whole hour: minute, second and
\* microsecond of its point in time are zero
C4_WholeHourSharp ==
    \A e \in active : \A t \in pending[e] :
        t.at.m = 0 /\ t.at.s = 0 /\ t.at.us = 0

\* C5 (as claimed): an update without a snapshot changes neither the armed wake-ups
\* nor the handle
C5_SkipDoesNotSchedule ==
    [][ lastOp'.kind = "skip" =>
          LET e == lastOp'.e
          IN  /\ pending'[e] = pending[e]
              /\ unsub_update'[e] = unsub_update[e] ]_vars

\* C5 (amended): an update without a snapshot also cancels the armed wake-up and arms
\* exactly one new one, to which the handle then refers
C5_SkipStillSchedules ==
    [][ lastOp'.kind = "skip" =>
          LET e == lastOp'.e
          IN  /\ \E t \in pending'[e] :
                    /\ pending'[e] = {t}
                    /\ t.id = unsub_update'[e]
                    /\ t.id # unsub_update[e]
                    /\ t.at.h = now.h + 1
              /\ \A u \in pending[e] : \A t \in pending'[e] : u.id # t.id ]_vars

\* C5 witness: a skipped update ran while a wake-up was armed, and one is armed after
C5_Witness ==
    /\ lastOp.kind = "skip"
    /\ lastOp.succ
    /\ Cardinality(pending[Updated]) = 1

\* C6: an update without a snapshot leaves availability, value and extra attributes
\* as they were
C6_SkipKeepsState ==
    [][ lastOp'.kind = "skip" =>
          LET e == lastOp'.e
          IN  /\ last_update_success'[e] = last_update_success[e]
              /\ native_value'[e] = native_value[e]
              /\ extra_state_attributes'[e] = extra_state_attributes[e] ]_vars

\* C6 witness: a skipped update of an entity that holds a value and was left
\* unavailable by an earlier failed update, directly after another skipped update
C6_Witness ==
    /\ lastOp.kind = "skip"
    /\ lastOp.succ
    /\ ~last_update_success[Updated]
    /\ native_value[Updated] # None

\* C7: available is true before any non-skipped update, and afterwards tells whether
\* the most recent non-skipped update succeeded
C7_AvailableIsLastOutcome ==
    \A e \in active : available(e) = (lastOutcome[e] # "fail")

\* C7 witness: a skipped update after a failed one, the entity still unavailable
C7_Witness ==
    /\ lastOp.kind = "skip"
    /\ lastOutcome[Updated] = "fail"
    /\ ~available(Updated)

\* C8 (safety part): once the first update has run, a wake-up is armed or an update
\* task is waiting
C8_LoopNeverStops ==
    \A e \in active : started[e] => (pending[e] # {} \/ queued[e] > 0)

\* no armed wake-up of e lies beyond the hours the clock covers
WithinHorizon(e) == \A t \in pending[e] : t.at.h <= MaxHour

\* C8: with the event loop running, once an entity has been updated (successfully,
\* failing or without a snapshot) another update of it follows
C8_AnotherUpdateFollows ==
    (lastOp.kind = "none" /\ \A e \in active : started[e] /\ WithinHorizon(e))
        ~> (lastOp.kind # "none")

\* C8 witness: an update without a snapshot, fired by a wake-up, has re-armed the loop
C8_Witness ==
    /\ lastOp.kind = "skip"
    /\ lastOp.trigger = "timer"
    /\ pending[Updated] # {}

\* the value a successful update publishes for the snapshot d
Extracted(e, d) ==
    LET v == value_fn(e, d).value
    IN  IF v.t = "Timestamp" THEN to_pydatetime(v) ELSE v

\* the snapshot d is complete and the metric's extraction is defined on it
WellFormed(e, d) ==
    /\ d # NoData
    /\ SnapshotKeys \subseteq DOMAIN d
    /\ ~value_fn(e, d).raised

\* C9: an update against a well-formed snapshot, with the collaborators not failing,
\* makes the entity available and publishes the extracted value, whatever happened
\* in earlier updates
C9_FailureDoesNotPoison ==
    [][ ( /\ lastOp'.kind # "none"
          /\ WellFormed(lastOp'.e, data)
          /\ lastOp'.cause \notin {"processed_data", "to_pydatetime"} ) =>
          LET e == lastOp'.e
          IN  /\ lastOp'.kind = "ok"
              /\ last_update_success'[e]
              /\ native_value'[e] = Extracted(e, data) ]_vars

\* C9 witness: a wake-up fired update succeeded after the previous attempt had failed
C9_Witness ==
    /\ lastOp.kind = "ok"
    /\ lastOp.prev = "fail"
    /\ lastOp.trigger = "timer"
    /\ last_update_success[Updated]

\* the snapshot d has a zero maximum, or a null current price or maximum
ZeroOrNullOperand(d) ==
    /\ d # NoData
    /\ {"current_price", "max_price"} \subseteq DOMAIN d
    /\ \/ d.max_price = Num(0)
       \/ d.max_price = None
       \/ d.current_price = None

\* C10: percentage_of_max against a zero maximum or a null operand raises: the entity
\* becomes unavailable and keeps its value
C10_ZeroMaxRaises ==
    [][ ( /\ lastOp'.kind # "none"
          /\ lastOp'.e = "percentage_of_max"
          /\ ZeroOrNullOperand(data) ) =>
          /\ lastOp'.kind = "fail"
          /\ ~last_update_success'["percentage_of_max"]
          /\ native_value'["percentage_of_max"] = native_value["percentage_of_max"] ]_vars

\* C10 witness: percentage_of_max failed on a zero maximum and still holds 50.0
C10_Witness ==
    /\ lastOp.kind = "fail"
    /\ Updated = "percentage_of_max"
    /\ data = SnapZeroMax
    /\ native_value["percentage_of_max"] = Num(500)
    /\ ~last_update_success["percentage_of_max"]

\* the wake-up the handle of e refers to after the step, if it is armed
ArmedByStep(e) == { t \in pending'[e] : t.id = unsub_update'[e] }

\* C11: an update in clock hour H arms its wake-up for clock hour H+1; a wake-up
\* fires no earlier than in the hour it was armed for, and no two wake-ups of an
\* entity fire in the same clock hour
C11_OncePerClockHour ==
    [][ \A e \in active :
          /\ (lastOp'.kind # "none" /\ lastOp'.e = e) =>
                /\ ArmedByStep(e) # {}
                /\ \A t \in ArmedByStep(e) : t.at.h = now.h + 1
          /\ queued'[e] = queued[e] + 1 =>
                /\ ~firedThisHour[e]
                /\ \A t \in pending[e] \ pending'[e] : t.at.h <= now.h ]_vars

\* C11 witness: the second wake-up of an entity has fired, in the last clock hour
C11_Witness ==
    /\ now.h = MaxHour
    /\ \E e \in active :
          /\ firedThisHour[e]
          /\ queued[e] > 0
          /\ started[e]
          /\ unsub_update[e] > 1

\* C13 (as claimed): every successful avg_price update sets the extra attributes to
\* the three price curves of the snapshot, and no other entity ever has any
C13_CurvesOnEverySuccess ==
    [][ \A e \in active :
          /\ e # "avg_price" => extra_state_attributes'[e] = NoAttrs
          /\ (e = "avg_price" /\ lastOp'.kind = "ok") =>
                extra_state_attributes'[e] = PriceCurves(data) ]_vars

\* C13 (amended): a successful avg_price update with a non-null value sets the extra
\* attributes to the three price curves of the snapshot; any other update leaves
\* them as they were, and no other entity ever has any
C13_CurvesOnNonNullSuccess ==
    [][ \A e \in active :
          /\ e # "avg_price" => extra_state_attributes'[e] = NoAttrs
          /\ e = "avg_price" =>
                IF lastOp'.kind = "ok" /\ native_value'[e] # None
                THEN extra_state_attributes'[e] = PriceCurves(data)
                ELSE extra_state_attributes'[e] = extra_state_attributes[e] ]_vars

\* C13 witness: avg_price holds the curves of the snapshot it was updated from
C13_Witness ==
    /\ lastOp.kind = "ok"
    /\ Updated = "avg_price"
    /\ data = SnapGood
    /\ extra_state_attributes["avg_price"] =
          [prices_today |-> <<20, 100>>, prices_tomorrow |-> <<30>>,
           prices |-> <<20, 100, 30>>]

\* t plus one hour
PlusHour(t) == [t EXCEPT !.h = @ + 1]

\* C17: the wake-up an update arms is due strictly later than now and at most one hour
\* later, so it is never due at the moment it is armed
C17_TargetInNextHour ==
    [][ lastOp'.kind # "none" =>
          LET e == lastOp'.e
          IN  /\ ArmedByStep(e) # {}
              /\ \A t \in ArmedByStep(e) :
                    /\ Earlier(now, t.at)
                    /\ ~Earlier(PlusHour(now), t.at)
                    /\ Earlier(now', t.at) ]_vars

\* C17 witness: a wake-up fired update in the last microsecond of an hour has armed
\* a wake-up for the next hour
C17_Witness ==
    /\ lastOp.kind # "none"
    /\ lastOp.trigger = "timer"
    /\ now.m = 59 /\ now.s = 59
    /\ \E t \in pending[Updated] : t.at.h = now.h + 1

\* the extraction of e on the snapshot d returns null
NullResult(e, d) ==
    /\ d # NoData
    /\ ~value_fn(e, d).raised
    /\ value_fn(e, d).value = None

\* C18: an update whose extraction returns null succeeds: it stores null as the value,
\* makes the entity available and leaves the extra attributes as they were
C18_NullOverwrites ==
    [][ ( /\ lastOp'.kind # "none"
          /\ lastOp'.cause # "processed_data"
          /\ NullResult(lastOp'.e, data) ) =>
          LET e == lastOp'.e
          IN  /\ lastOp'.kind = "ok"
              /\ native_value'[e] = None
              /\ last_update_success'[e]
              /\ extra_state_attributes'[e] = extra_state_attributes[e] ]_vars

\* C18 witness: avg_price holds null after a successful update, with the curves of
\* an earlier snapshot
C18_Witness ==
    /\ lastOp.kind = "ok"
    /\ Updated = "avg_price"
    /\ data = SnapNulls
    /\ native_value["avg_price"] = None
    /\ extra_state_attributes["avg_price"] = PriceCurves(SnapGood)

\* C20: once the first update has run the handle is never null, and every armed
\* wake-up is the one the handle refers to
C20_HandleOwnsPending ==
    \A e \in active :
        /\ started[e] => unsub_update[e] # 0
        /\ \A t \in pending[e] : t.id = unsub_update[e]

\* C20 witness: the handle refers to a wake-up that has fired
C20_Witness ==
    \E e \in active :
        /\ started[e]
        /\ pending[e] = {}
        /\ queued[e] > 0
        /\ unsub_update[e] # 0

\* C14: an update of one entity leaves the coordinator's data and the value, extra
\* attributes, availability, handle, armed wake-ups and waiting tasks of every
\* other entity as they were
C14_OnlyOwnState ==
    [][ lastOp'.kind # "none" =>
          /\ data' = data
          /\ \A o \in active \ {lastOp'.e} :
                /\ native_value'[o] = native_value[o]
                /\ extra_state_attributes'[o] = extra_state_attributes[o]
                /\ last_update_success'[o] = last_update_success[o]
                /\ unsub_update'[o] = unsub_update[o]
                /\ pending'[o] = pending[o]
                /\ queued'[o] = queued[o]
                /\ started'[o] = started[o] ]_vars

\* C14 witness: avg_price was updated from a snapshot, by its wake-up, while
\* percentage_of_max holds a value, is unavailable and has a wake-up armed
C14_Witness ==
    /\ lastOp.kind = "ok"
    /\ lastOp.trigger = "timer"
    /\ Updated = "avg_price"
    /\ "percentage_of_max" \in active
    /\ native_value["avg_price"] = Num(60)
    /\ native_value["percentage_of_max"] = Num(444)
    /\ ~last_update_success["percentage_of_max"]
    /\ pending["percentage_of_max"] # {}

\* the entities async_setup_entry has built so far
Built == { setup.entities[i] : i \in 1..Len(setup.entities) }

\* C15 (as claimed): the unit of every metric definition contains the currency code
C15_EveryUnitHasCurrency ==
    \A x \in Built :
        /\ x.description.unit # PyNone
        /\ Contains(x.description.unit.s, setup.currency)

PriceKeys == { "current_price", "next_hour_price", "min_price", "max_price", "avg_price" }

\* C15 (amended): the unit of the five price metrics is the currency code followed by
\* "/kWh" and so contains the code; the unit of percentage_of_max is "%" and the two
\* timestamp metrics have no unit
C15_PriceUnitsHaveCurrency ==
    \A x \in Built :
        LET d == x.description
        IN  /\ d.key \in PriceKeys =>
                  /\ d.unit = PyStr(setup.currency \o "/kWh")
                  /\ Contains(d.unit.s, setup.currency)
            /\ d.key = "percentage_of_max" => d.unit = PyStr("%")
            /\ d.key \in {"highest_price_time_today", "lowest_price_time_today"} =>
                  d.unit = PyNone

\* C15 witness: the whole catalog for the currency USD has been turned into entities
C15_Witness ==
    /\ setup.currency = "USD"
    /\ ~setup.added
    /\ Len(setup.entities) = 8

\* the entity ids and the unique ids the catalog yields under the configured name n
EntityIdsOf(n) ==
    { EntsoeSensor(setup.coordinator, sensor_descriptions(setup.currency)[i], n).entity_id :
        i \in 1..Len(MetricKeys) }

UniqueIdsOf(n) ==
    { EntsoeSensor(setup.coordinator, sensor_descriptions(setup.currency)[i], n).unique_id :
        i \in 1..Len(MetricKeys) }

\* None and "" both stand for the absent name
Absent(n) == n \in {PyNone, PyStr("")}

\* C16: the ids are those the configured name and the description determine, and they
\* share nothing with the ids of any other configured name, the absent name (None or
\* "") being one name
C16_DisjointForDistinctNames ==
    /\ \A i \in 1..Len(setup.entities) :
          LET x == setup.entities[i]
              pre == IF Absent(setup.name) THEN "" ELSE setup.name.s \o "_"
          IN  /\ x.entity_id = "entsoe." \o pre \o x.description.name
              /\ x.unique_id = "entsoe." \o pre \o x.description.key
    /\ \A n \in Names \ {setup.name} :
          ~(Absent(n) /\ Absent(setup.name)) =>
              \A x \in Built :
                  /\ x.entity_id \notin EntityIdsOf(n)
                  /\ x.unique_id \notin UniqueIdsOf(n)

\* C16 witness: all entities of the name "home" are built ("home_max" is another name)
C16_Witness ==
    /\ setup.name = PyStr("home")
    /\ Len(setup.entities) = 8
    /\ setup.entities[4].unique_id = "entsoe.home_max_price"

\* C19: async_setup_entry builds the entities in catalog order, one per metric
\* definition, all on the coordinator of the config entry, with pairwise distinct
\* unique ids and entity ids; all eight are handed to async_add_entities
C19_OnePerDefinition ==
    /\ Len(setup.entities) <= Len(MetricKeys)
    /\ setup.added => Len(setup.entities) = Len(MetricKeys)
    /\ \A i \in 1..Len(setup.entities) :
          /\ setup.entities[i].description = sensor_descriptions(setup.currency)[i]
          /\ setup.entities[i].description.key = MetricKeys[i]
          /\ setup.entities[i].coordinator = setup.coordinator
    /\ \A i, j \in 1..Len(setup.entities) :
          i # j =>
              /\ setup.entities[i].unique_id # setup.entities[j].unique_id
              /\ setup.entities[i].entity_id # setup.entities[j].entity_id

\* C19 witness: the eight entities of a named config entry were added
C19_Witness ==
    /\ setup.added
    /\ setup.name = PyStr("home_max")
    /\ setup.coordinator = "coordinator_2"
    /\ Len(setup.entities) = 8

====
